---- MODULE Spec2Model ----
(***************************************************************************)
(* Model of wezterm's entry point (src/src/main.rs): `main`, the startup   *)
(* sequence `run_terminal_gui` with its auto-connect loops, and the        *)
(* `cli list` query command.  The Mux registry, the domains, the domain id *)
(* allocator and the transport client live in modules that main.rs only    *)
(* calls (mod mux, mod server, mod frontend); their behaviour is taken     *)
(* from the design document and is marked as such where it is defined.     *)
(***************************************************************************)
EXTENDS Integers, Sequences, FiniteSets, TLC

\* ------------------------------------------------------------------ bounds
MaxUnix == 2          \* most [[unix_domains]] entries in a configuration
MaxTls == 1           \* most [[tls_clients]] entries in a configuration
MaxRemoteTabs == 1    \* most tabs in the window of a remote server
MaxListTabs == 2      \* most entries in a list_tabs response
NumClientDomains == 2 \* client domains of the attach state machines (SpecAttach)
MaxAttachCalls == 3   \* attach() calls in one SpecAttach run
MaxWindows == 2       \* new_empty_window calls in one SpecMux run
MaxTabs == 3          \* successful spawns in one SpecMux run
MaxKeyDowns == 2      \* key_down calls in one SpecKey run
NumThreads == 2       \* concurrent callers of alloc_domain_id (SpecAlloc)
MaxAllocs == 3        \* alloc_domain_id calls in one SpecAlloc run

VARIABLES
    opts,           \* Opt / StartCommand: the parsed command line
    config,         \* what Config::load() / default_config() yields
    pc,             \* position of main / run_terminal_gui
    result,         \* what main returns: Fallible<()>
    next_domain_id, \* the process-wide domain id counter
    domains,        \* the Domain objects constructed so far, by DomainId
    mux,            \* the Mux (registry)
    gui,            \* the front end
    loop,           \* position of the auto-connect for loops
    domain_id,      \* `let domain_id` of the current loop iteration
    window_id,      \* `let window_id` of the default-window path
    tab,            \* `let tab` of the default-window path
    log,            \* history of the startup steps taken, in order
    at_check,       \* history: the registry when mux.is_empty() was evaluated
    at_spawn,       \* history: the registry and domains when spawn was called
    client,         \* cli: the Client of the default unix domain
    tabs,           \* cli: the list_tabs response
    data,           \* cli: `let mut data`
    stdout,         \* cli: lines written to standard output
    threads,        \* SpecAlloc: each caller's position and value
    returned,       \* SpecAlloc: ids returned, in order of completion
    registered,     \* SpecAlloc: ids currently held by a registry
    att,            \* SpecAttach: the domains' attach state machines
    reg_hist,       \* SpecMux: history counts of the registry's mutations
    term,           \* SpecKey: the TerminalState fields key_down reads
    kd,             \* SpecKey: position and locals of the key_down call
    writer          \* SpecKey: what the pty writer was asked to do, in order

vars == <<opts, config, pc, result, next_domain_id, domains, mux, gui, loop,
          domain_id, window_id, tab, log, at_check, at_spawn,
          client, tabs, data, stdout,
          threads, returned, registered,
          att, reg_hist, term, kd, writer>>

histVars == <<at_check, at_spawn>>
startVars == <<next_domain_id, domains, mux, gui, loop, domain_id, window_id, tab, log,
               at_check, at_spawn>>
cliVars == <<client, tabs, data, stdout>>
allocVars == <<threads, returned, registered>>
keyVars == <<term, kd, writer>>
harnessVars == <<att, reg_hist, keyVars>>
mainVars == <<opts, config, pc, result, startVars, cliVars, allocVars>>

\* ------------------------------------------------------------ value sets
SeqsUpTo(S, n) == UNION {[1..k -> S] : k \in 0..n}

FrontEnds == {"Glutin", "MuxServer"}

\* A [[unix_domains]] / [[tls_clients]] entry, as far as startup reads it.
DomainConfigs == [connect_automatically : BOOLEAN]

Configs ==
    [unix_domains : SeqsUpTo(DomainConfigs, MaxUnix),
     tls_clients : SeqsUpTo(DomainConfigs, MaxTls),
     front_end : FrontEnds]

\* The options that startup reads more than once.  skip_config (-n) and
\* --daemonize are each read once and are drawn where they are read.
StartOpts ==
    [cmd : {"Start"},
     front_end : {"None", "MuxServer"},
     no_auto_connect : BOOLEAN,
     prog : {<<>>, <<"bash", "-l">>}]

CliOpts ==
    [cmd : {"CliList"},
     front_end : {"None"},
     no_auto_connect : {FALSE},
     prog : {<<>>}]

NoId == 0 - 1

Ok == [ok |-> TRUE, err |-> "none"]
Err(kind) == [ok |-> FALSE, err |-> kind]
NoResult == [ok |-> FALSE, err |-> "pending"]

PtySizeDefault == [rows |-> 24, cols |-> 80]
RemotePtySize == [rows |-> 43, cols |-> 132]

NoMux == [exists |-> FALSE, domains |-> {}, windows |-> <<>>,
          default_domain |-> NoId, next_window_id |-> 0, next_tab_id |-> 0]

NoGui == [state |-> "none", windows |-> <<>>]


\* ------------------------------------------------- mux::domain, mux::Mux
\* Variant: the counter is read but not advanced.
alloc_domain_id_next_stuck(counter) == counter

\* alloc_domain_id(): the value of the process-wide counter, which the call
\* advances by one in the same atomic step (design 4.1, 9).
alloc_domain_id_next(counter) == counter + 1

\* LocalDomain::new / ClientDomain::new: a Domain starts Detached (design 4.5).
NewDomain(kind) == [kind |-> kind, state |-> "Detached"]

\* Mux::new(&config, &domain): the registry with its default domain only.
Mux_new(id) ==
    [exists |-> TRUE, domains |-> {id}, windows |-> <<>>,
     default_domain |-> id, next_window_id |-> 0, next_tab_id |-> 0]

\* Mux::add_domain(&domain)
add_domain(m, id) == [m EXCEPT !.domains = @ \cup {id}]

\* Mux::new_empty_window(): a fresh window with no tabs; returns its id,
\* which is m.next_window_id of the registry it is applied to.
new_empty_window(m) ==
    [m EXCEPT !.windows = Append(@, [id |-> m.next_window_id, tabs |-> <<>>]),
              !.next_window_id = @ + 1]

\* Mux::default_domain()
default_domain(m) == m.default_domain

\* Registering a tab under a window: what a successful Domain::spawn and the
\* mirroring of a remote tab both do to the registry.
add_tab(m, wid, owner, size, title) ==
    [m EXCEPT
        !.windows = [i \in 1..Len(m.windows) |->
            IF m.windows[i].id = wid
            THEN [m.windows[i] EXCEPT !.tabs =
                    Append(@, [id |-> m.next_tab_id, owning_domain |-> owner,
                               size |-> size, title |-> title])]
            ELSE m.windows[i]],
        !.next_tab_id = @ + 1]

\* Variant: the registry counts as empty only when it has no window.
is_empty_when_no_window(m) == m.windows = <<>>

\* Mux::is_empty(): no window holds a tab (design invariant 5).
is_empty(m) == \A i \in 1..Len(m.windows) : m.windows[i].tabs = <<>>

\* All tabs of the registry, in window-creation then tab-creation order.
RECURSIVE AllTabsFrom(_, _)
AllTabsFrom(m, i) ==
    IF i > Len(m.windows) THEN <<>>
    ELSE m.windows[i].tabs \o AllTabsFrom(m, i + 1)

AllTabs(m) == AllTabsFrom(m, 1)

\* What a remote server holds when a client domain attaches: the number of
\* tabs of each of its windows; it has no window, or one window.
RemoteShapes == {<<>>} \cup {<<n>> : n \in 0..MaxRemoteTabs}

RECURSIVE MirrorTabs(_, _, _, _)
MirrorTabs(m, wid, owner, n) ==
    IF n = 0 THEN m
    ELSE MirrorTabs(add_tab(m, wid, owner, RemotePtySize, "remote"), wid, owner, n - 1)

\* ClientDomain::attach on success: the remote windows and tabs are mirrored
\* into the local registry, the tabs owned by the client domain (design 4.2).
RECURSIVE Mirror(_, _, _)
Mirror(m, owner, shape) ==
    IF shape = <<>> THEN m
    ELSE Mirror(MirrorTabs(new_empty_window(m), m.next_window_id, owner, Head(shape)),
                owner, Tail(shape))

\* ------------------------------------------------------ run_terminal_gui
\* let cmd = if !opts.prog.is_empty() { Some(builder) } else { None }
cmd == IF opts.prog # <<>> THEN [some |-> TRUE, argv |-> opts.prog]
       ELSE [some |-> FALSE, argv |-> <<>>]

\* let front_end = opts.front_end.unwrap_or(config.front_end)
front_end == IF opts.front_end # "None" THEN opts.front_end ELSE config.front_end

\* Variant: the TLS loop written before the unix loop.
LoopOrder_tls_first == <<"tls", "unix">>

\* The two for loops, in program order.
LoopOrder == <<"unix", "tls">>

LoopKind == LoopOrder[loop.phase]

\* &config.unix_domains / &config.tls_clients
LoopDomains(kind) == IF kind = "unix" THEN config.unix_domains ELSE config.tls_clients

Event(ev) == [ev |-> ev, kind |-> LoopKind, idx |-> loop.idx, id |-> domain_id]

\* `?` and error returns: run_terminal_gui returns Err and main returns it.
ReturnErr(kind) == pc' = "exit" /\ result' = Err(kind)

\* ------------------------------------------------------------------ main
\* main, lines 232-237: the configuration is the default one, or is loaded,
\* and loading may fail (`?`).
main_load_config ==
    /\ pc = "main"
    /\ \E skip_config \in BOOLEAN :
        \/ pc' = "dispatch" /\ result' = result
        \/ ~skip_config /\ ReturnErr("ConfigLoad")
    /\ UNCHANGED <<harnessVars, opts, config, startVars, cliVars, allocVars>>

\* main, lines 239-249: the match on the subcommand.
main_dispatch ==
    /\ pc = "dispatch"
    /\ pc' = IF opts.cmd = "Start" THEN "daemonize" ELSE "cli_connect"
    /\ UNCHANGED <<harnessVars, opts, config, result, startVars, cliVars, allocVars>>

\* run_terminal_gui, lines 137-151: daemonize when asked to; opening the
\* log files and detaching may fail (`?`).
rtg_daemonize ==
    /\ pc = "daemonize"
    /\ \E daemonize \in BOOLEAN :
        \/ pc' = "local_domain" /\ result' = result
        \/ daemonize /\ ReturnErr("Daemonize")
    /\ UNCHANGED <<harnessVars, opts, config, startVars, cliVars, allocVars>>

\* lines 167-169: LocalDomain::new(&config)?, Mux::new, Mux::set_mux.
\* The local domain takes its id from the allocator.
rtg_local_domain ==
    /\ pc = "local_domain"
    /\ \/ /\ next_domain_id' = alloc_domain_id_next(next_domain_id)
          /\ domains' = (next_domain_id :> NewDomain("Local")) @@ domains
          /\ mux' = Mux_new(next_domain_id)
          /\ pc' = "try_new"
          /\ result' = result
       \/ /\ ReturnErr("LocalDomain")
          /\ UNCHANGED <<next_domain_id, domains, mux>>
    /\ UNCHANGED <<harnessVars, opts, config, gui, loop, domain_id, window_id, tab, log,
                   histVars, cliVars, allocVars>>

\* lines 171-172: let gui = front_end.try_new(&mux)?
rtg_try_new ==
    /\ pc = "try_new"
    /\ \/ /\ gui' = [gui EXCEPT !.state = "created"]
          /\ pc' = "attach_local"
          /\ result' = result
       \/ ReturnErr("FrontEnd") /\ gui' = gui
    /\ UNCHANGED <<harnessVars, opts, config, next_domain_id, domains, mux, loop, domain_id,
                   window_id, tab, log, histVars, cliVars, allocVars>>

\* Variant: the attach call on the local domain left out.
rtg_attach_local_omitted ==
    /\ pc = "attach_local"
    /\ pc' = "auto_connect"
    /\ UNCHANGED <<harnessVars, opts, config, result, next_domain_id, domains, mux, gui, loop,
                   domain_id, window_id, tab, log, histVars, cliVars, allocVars>>

\* line 173: domain.attach()? on the local domain, which is synchronous and
\* always succeeds (design 4.2).
rtg_attach_local ==
    /\ pc = "attach_local"
    /\ domains' = [domains EXCEPT ![default_domain(mux)].state = "Attached"]
    /\ pc' = "auto_connect"
    /\ UNCHANGED <<harnessVars, opts, config, result, next_domain_id, mux, gui, loop, domain_id,
                   window_id, tab, log, histVars, cliVars, allocVars>>

\* Variant: --no-auto-connect not consulted.
rtg_auto_connect_flag_ignored ==
    /\ pc = "auto_connect"
    /\ IF front_end # "MuxServer"
       THEN pc' = "for" /\ loop' = [phase |-> 1, idx |-> 1]
       ELSE pc' = "is_empty" /\ loop' = loop
    /\ UNCHANGED <<harnessVars, opts, config, result, next_domain_id, domains, mux, gui,
                   domain_id, window_id, tab, log, histVars, cliVars, allocVars>>

\* line 181: if front_end != FrontEndSelection::MuxServer && !opts.no_auto_connect
rtg_auto_connect ==
    /\ pc = "auto_connect"
    /\ IF front_end # "MuxServer" /\ ~opts.no_auto_connect
       THEN pc' = "for" /\ loop' = [phase |-> 1, idx |-> 1]
       ELSE pc' = "is_empty" /\ loop' = loop
    /\ UNCHANGED <<harnessVars, opts, config, result, next_domain_id, domains, mux, gui,
                   domain_id, window_id, tab, log, histVars, cliVars, allocVars>>

\* lines 182-183 and 192-193: the for loops over config.unix_domains and then
\* config.tls_clients, and the connect_automatically test of each entry.
rtg_for ==
    /\ pc = "for"
    /\ IF loop.phase > Len(LoopOrder)
       THEN pc' = "is_empty" /\ loop' = loop
       ELSE IF loop.idx > Len(LoopDomains(LoopKind))
       THEN pc' = pc /\ loop' = [phase |-> loop.phase + 1, idx |-> 1]
       ELSE IF LoopDomains(LoopKind)[loop.idx].connect_automatically
       THEN pc' = "alloc" /\ loop' = loop
       ELSE pc' = pc /\ loop' = [loop EXCEPT !.idx = @ + 1]
    /\ UNCHANGED <<harnessVars, opts, config, result, next_domain_id, domains, mux, gui,
                   domain_id, window_id, tab, log, histVars, cliVars, allocVars>>

\* Variant: the id is taken without advancing the allocator.
rtg_alloc_counter_kept ==
    /\ pc = "alloc"
    /\ domain_id' = next_domain_id
    /\ log' = Append(log, [Event("alloc") EXCEPT !.id = next_domain_id])
    /\ pc' = "construct"
    /\ UNCHANGED <<harnessVars, opts, config, result, next_domain_id, domains, mux, gui, loop,
                   window_id, tab, histVars, cliVars, allocVars>>

\* lines 184 and 194: let domain_id = alloc_domain_id();
rtg_alloc ==
    /\ pc = "alloc"
    /\ domain_id' = next_domain_id
    /\ next_domain_id' = alloc_domain_id_next(next_domain_id)
    /\ log' = Append(log, [Event("alloc") EXCEPT !.id = next_domain_id])
    /\ pc' = "construct"
    /\ UNCHANGED <<harnessVars, opts, config, result, domains, mux, gui, loop, window_id, tab,
                   histVars, cliVars, allocVars>>

\* Variant: a client that cannot be constructed is skipped and the loop
\* goes on with the next entry.
rtg_construct_failure_skipped ==
    /\ pc = "construct"
    /\ \/ /\ domains' = (domain_id :> NewDomain(LoopKind)) @@ domains
          /\ log' = Append(log, Event("construct"))
          /\ pc' = "add_domain"
          /\ loop' = loop
       \/ /\ pc' = "for"
          /\ loop' = [loop EXCEPT !.idx = @ + 1]
          /\ UNCHANGED <<domains, log>>
    /\ UNCHANGED <<harnessVars, opts, config, result, next_domain_id, mux, gui, domain_id,
                   window_id, tab, histVars, cliVars, allocVars>>

\* lines 187 and 197: ClientDomain::new(Client::new_unix_domain(..)?) and
\* ClientDomain::new(Client::new_tls(..)?): constructing the client may fail.
rtg_construct ==
    /\ pc = "construct"
    /\ \/ /\ domains' = (domain_id :> NewDomain(LoopKind)) @@ domains
          /\ log' = Append(log, Event("construct"))
          /\ pc' = "add_domain"
          /\ result' = result
       \/ /\ ReturnErr("ClientConstruct")
          /\ UNCHANGED <<domains, log>>
    /\ UNCHANGED <<harnessVars, opts, config, next_domain_id, mux, gui, loop, domain_id,
                   window_id, tab, histVars, cliVars, allocVars>>

\* Variant: attach_client without its add_domain call.
attach_client_add_domain_omitted ==
    /\ pc = "add_domain"
    /\ log' = Append(log, Event("add_domain"))
    /\ pc' = "attach"
    /\ UNCHANGED <<harnessVars, opts, config, result, next_domain_id, domains, mux, gui, loop,
                   domain_id, window_id, tab, histVars, cliVars, allocVars>>

\* attach_client, lines 176-177: mux.add_domain(&domain);
attach_client_add_domain ==
    /\ pc = "add_domain"
    /\ mux' = add_domain(mux, domain_id)
    /\ log' = Append(log, Event("add_domain"))
    /\ pc' = "attach"
    /\ UNCHANGED <<harnessVars, opts, config, result, next_domain_id, domains, gui, loop,
                   domain_id, window_id, tab, histVars, cliVars, allocVars>>

\* attach_client, line 178: domain.attach() is called; the client domain
\* connects and performs its handshake (design 4.2, 4.5).
attach_client_attach ==
    /\ pc = "attach"
    /\ domains' = [domains EXCEPT ![domain_id].state = "Attaching"]
    /\ log' = Append(log, Event("attach"))
    /\ pc' = "attaching"
    /\ UNCHANGED <<harnessVars, opts, config, result, next_domain_id, mux, gui, loop,
                   domain_id, window_id, tab, histVars, cliVars, allocVars>>

\* Variant: a failed attach is tried again instead of being returned.
attach_client_return_retry ==
    /\ pc = "attaching"
    /\ \/ \E shape \in RemoteShapes :
            /\ mux' = Mirror(mux, domain_id, shape)
            /\ domains' = [domains EXCEPT ![domain_id].state = "Attached"]
            /\ log' = Append(log, Event("attached"))
            /\ loop' = [loop EXCEPT !.idx = @ + 1]
            /\ pc' = "for"
       \/ /\ domains' = [domains EXCEPT ![domain_id].state = "Detached"]
          /\ log' = Append(log, Event("attach_failed"))
          /\ pc' = "attach"
          /\ UNCHANGED <<mux, loop>>
    /\ UNCHANGED <<harnessVars, opts, config, result, next_domain_id, gui, domain_id, window_id,
                   tab, histVars, cliVars, allocVars>>

\* attach_client, line 178, and the `?` of lines 188 and 198: attach returns.
\* On success the remote windows and tabs have been mirrored and the loop goes
\* on; on failure the domain is Detached again and the error is returned.
attach_client_return ==
    /\ pc = "attaching"
    /\ \/ \E shape \in RemoteShapes :
            /\ mux' = Mirror(mux, domain_id, shape)
            /\ domains' = [domains EXCEPT ![domain_id].state = "Attached"]
            /\ log' = Append(log, Event("attached"))
            /\ loop' = [loop EXCEPT !.idx = @ + 1]
            /\ pc' = "for"
            /\ result' = result
       \/ /\ domains' = [domains EXCEPT ![domain_id].state = "Detached"]
          /\ log' = Append(log, Event("attach_failed"))
          /\ ReturnErr("ConnectionFailed")
          /\ UNCHANGED <<mux, loop>>
    /\ UNCHANGED <<harnessVars, opts, config, next_domain_id, gui, domain_id, window_id, tab,
                   histVars, cliVars, allocVars>>

\* Variant: the default window made without looking at mux.is_empty().
rtg_is_empty_unconditional ==
    /\ pc = "is_empty"
    /\ pc' = "new_empty_window"
    /\ at_check' = mux
    /\ UNCHANGED <<harnessVars, opts, config, result, next_domain_id, domains, mux, gui, loop,
                   domain_id, window_id, tab, log, at_spawn, cliVars, allocVars>>

\* line 203: if mux.is_empty()
rtg_is_empty ==
    /\ pc = "is_empty"
    /\ pc' = IF is_empty(mux) THEN "new_empty_window" ELSE "run_forever"
    /\ at_check' = mux
    /\ UNCHANGED <<harnessVars, opts, config, result, next_domain_id, domains, mux, gui, loop,
                   domain_id, window_id, tab, log, at_spawn, cliVars, allocVars>>

\* line 204: let window_id = mux.new_empty_window();
rtg_new_empty_window ==
    /\ pc = "new_empty_window"
    /\ window_id' = mux.next_window_id
    /\ mux' = new_empty_window(mux)
    /\ pc' = "spawn"
    /\ UNCHANGED <<harnessVars, opts, config, result, next_domain_id, domains, gui, loop,
                   domain_id, tab, log, histVars, cliVars, allocVars>>

\* Variant: the tab is spawned at another size than PtySize::default().
rtg_spawn_other_size ==
    /\ pc = "spawn"
    /\ \/ /\ mux' = add_tab(mux, window_id, default_domain(mux), RemotePtySize,
                            IF cmd.some THEN cmd.argv[1] ELSE "shell")
          /\ tab' = mux.next_tab_id
          /\ pc' = "spawn_new_window"
          /\ result' = result
       \/ /\ ReturnErr("SpawnFailed")
          /\ UNCHANGED <<mux, tab>>
    /\ at_spawn' = [mux |-> mux, domains |-> domains]
    /\ UNCHANGED <<harnessVars, opts, config, next_domain_id, domains, gui, loop, domain_id,
                   window_id, log, at_check, cliVars, allocVars>>

\* Variant: the spawn error is noted but startup goes on (no `?`).
rtg_spawn_error_not_returned ==
    /\ pc = "spawn"
    /\ \/ /\ mux' = add_tab(mux, window_id, default_domain(mux), PtySizeDefault,
                            IF cmd.some THEN cmd.argv[1] ELSE "shell")
          /\ tab' = mux.next_tab_id
          /\ pc' = "spawn_new_window"
          /\ result' = result
       \/ /\ result' = Err("SpawnFailed")
          /\ pc' = "spawn_new_window"
          /\ UNCHANGED <<mux, tab>>
    /\ at_spawn' = [mux |-> mux, domains |-> domains]
    /\ UNCHANGED <<harnessVars, opts, config, next_domain_id, domains, gui, loop, domain_id,
                   window_id, log, at_check, cliVars, allocVars>>

\* Variant: a failed spawn takes the new window out of the registry again.
rtg_spawn_failure_undoes_window ==
    /\ pc = "spawn"
    /\ \/ /\ mux' = add_tab(mux, window_id, default_domain(mux), PtySizeDefault,
                            IF cmd.some THEN cmd.argv[1] ELSE "shell")
          /\ tab' = mux.next_tab_id
          /\ pc' = "spawn_new_window"
          /\ result' = result
       \/ /\ ReturnErr("SpawnFailed")
          /\ mux' = at_check
          /\ tab' = tab
    /\ at_spawn' = [mux |-> mux', domains |-> domains]
    /\ UNCHANGED <<harnessVars, opts, config, next_domain_id, domains, gui, loop, domain_id,
                   window_id, log, at_check, cliVars, allocVars>>

\* lines 205-207: mux.default_domain().spawn(PtySize::default(), cmd, window_id)?
\* A successful spawn registers the new tab under the window; a failed one
\* leaves the registry alone (design 4.2) and the error is returned.
rtg_spawn ==
    /\ pc = "spawn"
    /\ \/ /\ mux' = add_tab(mux, window_id, default_domain(mux), PtySizeDefault,
                            IF cmd.some THEN cmd.argv[1] ELSE "shell")
          /\ tab' = mux.next_tab_id
          /\ pc' = "spawn_new_window"
          /\ result' = result
       \/ /\ ReturnErr("SpawnFailed")
          /\ UNCHANGED <<mux, tab>>
    /\ at_spawn' = [mux |-> mux, domains |-> domains]
    /\ UNCHANGED <<harnessVars, opts, config, next_domain_id, domains, gui, loop, domain_id,
                   window_id, log, at_check, cliVars, allocVars>>

\* line 208: gui.spawn_new_window(mux.config(), &fontconfig, &tab, window_id)?
rtg_spawn_new_window ==
    /\ pc = "spawn_new_window"
    /\ \/ /\ gui' = [gui EXCEPT !.windows =
                        Append(@, [window_id |-> window_id, tab |-> tab])]
          /\ pc' = "run_forever"
          /\ result' = result
       \/ ReturnErr("GuiWindow") /\ gui' = gui
    /\ UNCHANGED <<harnessVars, opts, config, next_domain_id, domains, mux, loop, domain_id,
                   window_id, tab, log, histVars, cliVars, allocVars>>

\* line 211: gui.run_forever()
rtg_run_forever ==
    /\ pc = "run_forever"
    /\ gui' = [gui EXCEPT !.state = "running"]
    /\ pc' = "running"
    /\ UNCHANGED <<harnessVars, opts, config, result, next_domain_id, domains, mux, loop,
                   domain_id, window_id, tab, log, histVars, cliVars, allocVars>>

run_terminal_gui ==
    \/ rtg_daemonize
    \/ rtg_local_domain
    \/ rtg_try_new
    \/ rtg_attach_local
    \/ rtg_auto_connect
    \/ rtg_for
    \/ rtg_alloc
    \/ rtg_construct
    \/ attach_client_add_domain
    \/ attach_client_attach
    \/ attach_client_return
    \/ rtg_is_empty
    \/ rtg_new_empty_window
    \/ rtg_spawn
    \/ rtg_spawn_new_window
    \/ rtg_run_forever

\* ------------------------------------------------------------- cli list
\* What a mux server may answer to list_tabs: entries of the wire contract
\* {window_id, tab_id, size, title}; titles are sequences of characters.
ListEntries ==
    {[window_id |-> 1, tab_id |-> 1, size |-> [cols |-> 80, rows |-> 24], title |-> <<"a">>],
     [window_id |-> 2, tab_id |-> 5, size |-> [cols |-> 132, rows |-> 43], title |-> <<"b">>],
     [window_id |-> 0, tab_id |-> 10, size |-> [cols |-> 9, rows |-> 100], title |-> <<>>]}

Responses == SeqsUpTo(ListEntries, MaxListTabs)

DigitChars == <<"0", "1", "2", "3", "4", "5", "6", "7", "8", "9">>

\* usize::to_string(): the decimal digits, most significant first.
RECURSIVE to_string(_)
to_string(n) ==
    IF n < 10 THEN <<DigitChars[n + 1]>>
    ELSE to_string(n \div 10) \o <<DigitChars[(n % 10) + 1]>>

\* lines 253-270: let cols = vec![Column {..}, ..]
cols ==
    <<[name |-> <<"W", "I", "N", "I", "D">>, alignment |-> "Right"],
      [name |-> <<"T", "A", "B", "I", "D">>, alignment |-> "Right"],
      [name |-> <<"S", "I", "Z", "E">>, alignment |-> "Left"],
      [name |-> <<"T", "I", "T", "L", "E">>, alignment |-> "Left"]>>

\* Variant: the size written as rows x cols.
Row_rows_first(entry) ==
    <<to_string(entry.window_id),
      to_string(entry.tab_id),
      to_string(entry.size.rows) \o <<"x">> \o to_string(entry.size.cols),
      entry.title>>

\* lines 274-279: the row pushed for one entry.
Row(entry) ==
    <<to_string(entry.window_id),
      to_string(entry.tab_id),
      to_string(entry.size.cols) \o <<"x">> \o to_string(entry.size.rows),
      entry.title>>

Max(a, b) == IF a >= b THEN a ELSE b

RECURSIVE Spaces(_)
Spaces(n) == IF n <= 0 THEN <<>> ELSE <<" ">> \o Spaces(n - 1)

RECURSIVE ColumnWidth(_, _, _)
ColumnWidth(rows, c, w) ==
    IF rows = <<>> THEN w
    ELSE ColumnWidth(Tail(rows), c, Max(w, Len(Head(rows)[c])))

\* tabout: a cell padded to its column's width, on the side its alignment says.
Pad(cell, width, alignment) ==
    IF alignment = "Right" THEN Spaces(width - Len(cell)) \o cell
    ELSE cell \o Spaces(width - Len(cell))

\* tabout::tabulate_output(&cols, &data, out): the header line, then one line
\* per row of data, every cell padded to the width of its column.
tabulate_output(columns, rows) ==
    LET header == [c \in 1..Len(columns) |-> columns[c].name]
        all == <<header>> \o rows
        line(r) == [c \in 1..Len(columns) |->
                      Pad(r[c], ColumnWidth(all, c, 0), columns[c].alignment)]
    IN  [i \in 1..Len(all) |-> line(all[i])]

\* main, line 250: let client = Client::new_default_unix_domain(&config)?
cli_connect ==
    /\ pc = "cli_connect"
    /\ \/ client' = "connected" /\ pc' = "cli_list_tabs" /\ result' = result
       \/ client' = client /\ ReturnErr("ConnectionFailed")
    /\ UNCHANGED <<harnessVars, opts, config, startVars, tabs, data, stdout, allocVars>>

\* Variant: the header is written before the response is awaited.
cli_list_tabs_header_first ==
    /\ pc = "cli_list_tabs"
    /\ data' = <<>>
    /\ stdout' = stdout \o tabulate_output(cols, <<>>)
    /\ \/ \E response \in Responses :
            tabs' = response /\ pc' = "cli_for" /\ result' = result
       \/ tabs' = tabs /\ ReturnErr("ListTabsFailed")
    /\ UNCHANGED <<harnessVars, opts, config, startVars, client, allocVars>>

\* lines 271-272: let mut data = vec![]; let tabs = client.list_tabs().wait()?
cli_list_tabs ==
    /\ pc = "cli_list_tabs"
    /\ data' = <<>>
    /\ \/ \E response \in Responses :
            tabs' = response /\ pc' = "cli_for" /\ result' = result
       \/ tabs' = tabs /\ ReturnErr("ListTabsFailed")
    /\ UNCHANGED <<harnessVars, opts, config, startVars, client, stdout, allocVars>>

\* lines 273-280: for entry in tabs.tabs.iter() { data.push(vec![..]) }
cli_for ==
    /\ pc = "cli_for"
    /\ IF Len(data) < Len(tabs)
       THEN data' = Append(data, Row(tabs[Len(data) + 1])) /\ pc' = pc
       ELSE data' = data /\ pc' = "cli_tabulate"
    /\ UNCHANGED <<harnessVars, opts, config, result, startVars, client, tabs, stdout, allocVars>>

\* lines 281-284: tabulate_output(&cols, &data, &mut stdout)?; Ok(())
\* Writing to standard output may fail after some of the lines.
cli_tabulate ==
    /\ pc = "cli_tabulate"
    /\ LET lines == tabulate_output(cols, data)
       IN  \/ stdout' = stdout \o lines /\ pc' = "exit" /\ result' = Ok
           \/ \E n \in 0..(Len(lines) - 1) :
                /\ stdout' = stdout \o SubSeq(lines, 1, n)
                /\ ReturnErr("Io")
    /\ UNCHANGED <<harnessVars, opts, config, startVars, client, tabs, data, allocVars>>

cli_list ==
    \/ cli_connect
    \/ cli_list_tabs
    \/ cli_for
    \/ cli_tabulate

\* ------------------------------------------- concurrent alloc_domain_id
\* Several attachment attempts in flight call alloc_domain_id concurrently
\* (design 4.1, 5); what they do with the id afterwards does not involve the
\* allocator.
Threads == 1..NumThreads

IdleThread == [pc |-> "idle", id |-> NoId]

alloc_calls == Len(returned) + Cardinality({t \in Threads : threads[t].pc = "calling"})

\* A caller enters alloc_domain_id.
alloc_call(t) ==
    /\ threads[t].pc = "idle"
    /\ alloc_calls < MaxAllocs
    /\ threads' = [threads EXCEPT ![t].pc = "calling"]
    /\ UNCHANGED <<harnessVars, opts, config, pc, result, startVars, cliVars, returned, registered>>

\* alloc_domain_id(): one atomic read-and-advance of the counter; the call
\* completes with the value read.
alloc_domain_id(t) ==
    /\ threads[t].pc = "calling"
    /\ threads' = [threads EXCEPT ![t] = [pc |-> "holding", id |-> next_domain_id]]
    /\ next_domain_id' = alloc_domain_id_next(next_domain_id)
    /\ returned' = Append(returned, next_domain_id)
    /\ UNCHANGED <<harnessVars, opts, config, pc, result, domains, mux, gui, loop, domain_id,
                   window_id, tab, log, histVars, cliVars, registered>>

\* The id's domain is added to a registry (Mux::add_domain) ...
alloc_add(t) ==
    /\ threads[t].pc = "holding"
    /\ registered' = (threads[t].id :> "added") @@ registered
    /\ threads' = [threads EXCEPT ![t] = IdleThread]
    /\ UNCHANGED <<harnessVars, opts, config, pc, result, startVars, cliVars, returned>>

\* ... or the id is given up without its domain ever being added, as when
\* constructing the client fails (lines 187, 197).
alloc_drop(t) ==
    /\ threads[t].pc = "holding"
    /\ registered' = (threads[t].id :> "never_added") @@ registered
    /\ threads' = [threads EXCEPT ![t] = IdleThread]
    /\ UNCHANGED <<harnessVars, opts, config, pc, result, startVars, cliVars, returned>>

\* A domain is removed from its registry (design 3, DomainId).
alloc_remove(id) ==
    /\ id \in DOMAIN registered
    /\ registered[id] = "added"
    /\ registered' = [registered EXCEPT ![id] = "removed"]
    /\ UNCHANGED <<harnessVars, opts, config, pc, result, startVars, cliVars, threads, returned>>


\* ------------------------------------------------------------ idle parts
\* The parts of the state a specification does not exercise stay as they
\* are here.
NoAtt == [state |-> <<>>, handshakes |-> <<>>, calls |-> 0,
          ret |-> [dom |-> NoId, before |-> "none", after |-> "none",
                   started |-> FALSE, err |-> FALSE]]

NoRegHist == [opened |-> 0, closed |-> 0, added |-> 0, removed |-> 0,
              last |-> [op |-> "none", id |-> NoId, was_empty |-> TRUE]]

NoTerm == [exists |-> FALSE]

NoKd == [calls |-> 0]

HarnessIdle ==
    /\ att = NoAtt
    /\ reg_hist = NoRegHist
    /\ term = NoTerm
    /\ kd = NoKd
    /\ writer = <<>>

\* main is not running: position p, registry m over the domains ds.
MainIdle(p, m, ds) ==
    /\ opts = [cmd |-> "Start", front_end |-> "None",
               no_auto_connect |-> FALSE, prog |-> <<>>]
    /\ config = [unix_domains |-> <<>>, tls_clients |-> <<>>, front_end |-> "Glutin"]
    /\ pc = p
    /\ result = NoResult
    /\ next_domain_id = Cardinality(DOMAIN ds)
    /\ domains = ds
    /\ mux = m
    /\ gui = NoGui
    /\ loop = [phase |-> 0, idx |-> 0]
    /\ domain_id = NoId
    /\ window_id = NoId
    /\ tab = NoId
    /\ log = <<>>
    /\ at_check = NoMux
    /\ at_spawn = [mux |-> NoMux, domains |-> <<>>]
    /\ client = "none"
    /\ tabs = <<>>
    /\ data = <<>>
    /\ stdout = <<>>
    /\ threads = <<>>
    /\ returned = <<>>
    /\ registered = <<>>

\* ------------------------------------------------ the registry on its own
\* A tab is destroyed because its session ended: it leaves its window, and
\* the window stays (design 3, Tab and invariant 3).
remove_tab(m, tid) ==
    [m EXCEPT !.windows = [i \in 1..Len(m.windows) |->
        [m.windows[i] EXCEPT !.tabs = SelectSeq(@, LAMBDA t : t.id # tid)]]]

\* A window is closed explicitly: it leaves the registry and its tabs are
\* destroyed with it (design 3, Tab and invariant 3).
close_window(m, wid) ==
    [m EXCEPT !.windows = SelectSeq(@, LAMBDA w : w.id # wid)]

WindowIds(m) == {m.windows[i].id : i \in DOMAIN m.windows}

TabIds(m) == {AllTabs(m)[i].id : i \in DOMAIN AllTabs(m)}

WindowOf(m, wid) == CHOOSE w \in {m.windows[i] : i \in DOMAIN m.windows} : w.id = wid

RegLast(op, id, m) == [op |-> op, id |-> id, was_empty |-> is_empty(m)]

\* Mux::new_empty_window(), as line 204 calls it.
mux_new_empty_window ==
    /\ reg_hist.opened < MaxWindows
    /\ mux' = new_empty_window(mux)
    /\ reg_hist' = [reg_hist EXCEPT !.opened = @ + 1,
                                    !.last = RegLast("new_empty_window", mux.next_window_id, mux)]
    /\ UNCHANGED <<opts, config, pc, result, next_domain_id, domains, gui, loop,
                   domain_id, window_id, tab, log, histVars, cliVars, allocVars,
                   att, keyVars>>

\* default_domain().spawn(size, cmd, window_id), as lines 205-207 call it:
\* a successful spawn registers a tab under the window, a failed one does
\* not change the registry.
mux_spawn(wid) ==
    /\ wid \in WindowIds(mux)
    /\ reg_hist.added < MaxTabs
    /\ \/ /\ mux' = add_tab(mux, wid, default_domain(mux), PtySizeDefault, "shell")
          /\ reg_hist' = [reg_hist EXCEPT !.added = @ + 1,
                                          !.last = RegLast("spawn", wid, mux)]
       \/ /\ mux' = mux
          /\ reg_hist' = [reg_hist EXCEPT !.last = RegLast("spawn_failed", wid, mux)]
    /\ UNCHANGED <<opts, config, pc, result, next_domain_id, domains, gui, loop,
                   domain_id, window_id, tab, log, histVars, cliVars, allocVars,
                   att, keyVars>>

\* The session of a tab ends.
mux_remove_tab(tid) ==
    /\ tid \in TabIds(mux)
    /\ mux' = remove_tab(mux, tid)
    /\ reg_hist' = [reg_hist EXCEPT
            !.removed = @ + 1,
            !.last = RegLast("remove_tab",
                             (CHOOSE w \in WindowIds(mux) :
                                \E i \in DOMAIN WindowOf(mux, w).tabs :
                                    WindowOf(mux, w).tabs[i].id = tid),
                             mux)]
    /\ UNCHANGED <<opts, config, pc, result, next_domain_id, domains, gui, loop,
                   domain_id, window_id, tab, log, histVars, cliVars, allocVars,
                   att, keyVars>>

\* A window is closed.
mux_close_window(wid) ==
    /\ wid \in WindowIds(mux)
    /\ mux' = close_window(mux, wid)
    /\ reg_hist' = [reg_hist EXCEPT
            !.closed = @ + 1,
            !.removed = @ + Len(WindowOf(mux, wid).tabs),
            !.last = RegLast("close_window", wid, mux)]
    /\ UNCHANGED <<opts, config, pc, result, next_domain_id, domains, gui, loop,
                   domain_id, window_id, tab, log, histVars, cliVars, allocVars,
                   att, keyVars>>

\* ------------------------------------------- TerminalState, keyboard.rs
\* KeyboardEncoding, as far as keyboard.rs names its variants (lines 9-10).
KeyboardEncodings == {"Xterm", "CsiU"}

KeyCodes == {"Enter", "UpArrow"}

KeyModifiers == {"NONE", "CTRL"}

\* The fields of TerminalState that key_down reads.
TerminalStates ==
    [exists : {TRUE},
     keyboard_encoding : KeyboardEncodings,
     newline_mode : BOOLEAN,
     application_cursor_keys : BOOLEAN,
     enable_csi_u_key_encoding : BOOLEAN,
     debug_key_events : BOOLEAN]

\* Variant: the configuration is not consulted.
effective_keyboard_encoding_always_csi_u(t) ==
    IF t.keyboard_encoding = "Xterm" THEN "CsiU" ELSE t.keyboard_encoding

\* lines 6-13: fn effective_keyboard_encoding(&self) -> KeyboardEncoding
effective_keyboard_encoding(t) ==
    IF t.keyboard_encoding = "Xterm" /\ t.enable_csi_u_key_encoding
    THEN "CsiU"
    ELSE t.keyboard_encoding

\* lines 22-26: KeyCodeEncodeModes { encoding, newline_mode, application_cursor_keys }
KeyCodeEncodeModes(t) ==
    [encoding |-> effective_keyboard_encoding(t),
     newline_mode |-> t.newline_mode,
     application_cursor_keys |-> t.application_cursor_keys]

\* key.encode(mods, modes) on success: the string termwiz yields is
\* determined by the key, the modifiers and the modes, and is kept as that
\* term.
encode(key, mods, modes) == [key |-> key, mods |-> mods, modes |-> modes]

\* No string: what the `?` of a failed encode leaves unbound.
NoString(modes) == encode("none", "none", modes)

WriteAll(bytes, ok) == [op |-> "write_all", bytes |-> bytes, ok |-> ok]

Flush(ok) == [op |-> "flush", ok |-> ok]

KeyDownReturn(key, mods, encoded, issued, res) ==
    [calls |-> kd.calls + 1, key |-> key, mods |-> mods,
     modes |-> KeyCodeEncodeModes(term), encoded |-> encoded,
     level |-> IF encoded.err # "none" THEN "none"
               ELSE IF term.debug_key_events THEN "info" ELSE "trace",
     issued |-> issued, result |-> res, term_before |-> term]

\* Variant: the result of encode is used without its `?`, an error
\* yielding no bytes.
key_down_encode_error_ignored(key, mods) ==
    /\ kd.calls < MaxKeyDowns
    /\ \E encode_ok, write_ok, flush_ok \in BOOLEAN :
        LET to_send == IF encode_ok THEN encode(key, mods, KeyCodeEncodeModes(term))
                       ELSE NoString(KeyCodeEncodeModes(term))
            encoded == IF encode_ok THEN [err |-> "none", to_send |-> to_send]
                       ELSE [err |-> "Encode", to_send |-> NoString(KeyCodeEncodeModes(term))]
            issued == IF ~write_ok THEN <<WriteAll(to_send, FALSE)>>
                      ELSE <<WriteAll(to_send, TRUE), Flush(flush_ok)>>
            res == IF ~write_ok THEN Err("Write")
                   ELSE IF ~flush_ok THEN Err("Flush")
                   ELSE Ok
        IN  /\ kd' = KeyDownReturn(key, mods, encoded, issued, res)
            /\ writer' = writer \o issued
    /\ UNCHANGED <<mainVars, att, reg_hist, term>>

\* lines 19-38: pub fn key_down(&mut self, key, mods) -> anyhow::Result<()>.
\* encode, write_all and flush may each fail, and each `?` returns the error
\* at once.
key_down(key, mods) ==
    /\ kd.calls < MaxKeyDowns
    /\ \E encode_ok, write_ok, flush_ok \in BOOLEAN :
        LET to_send == encode(key, mods, KeyCodeEncodeModes(term))
            encoded == IF encode_ok THEN [err |-> "none", to_send |-> to_send]
                       ELSE [err |-> "Encode", to_send |-> NoString(KeyCodeEncodeModes(term))]
            issued == IF ~encode_ok THEN <<>>
                      ELSE IF ~write_ok THEN <<WriteAll(to_send, FALSE)>>
                      ELSE <<WriteAll(to_send, TRUE), Flush(flush_ok)>>
            res == IF ~encode_ok THEN Err("Encode")
                   ELSE IF ~write_ok THEN Err("Write")
                   ELSE IF ~flush_ok THEN Err("Flush")
                   ELSE Ok
        IN  /\ kd' = KeyDownReturn(key, mods, encoded, issued, res)
            /\ writer' = writer \o issued
    /\ UNCHANGED <<mainVars, att, reg_hist, term>>

\* ------------------------------------- Domain::attach, Domain::detach
\* The attach/detach state machine of design 4.5 for one local domain and
\* NumClientDomains client domains, attach() being called by any number of
\* callers at any time.
AttachDomains == 0..NumClientDomains

AttachKind(d) == IF d = 0 THEN "Local" ELSE "Client"

AttachRet(d, before, after, started, err) ==
    [dom |-> d, before |-> before, after |-> after, started |-> started, err |-> err]

\* Variant: attach() opens a connection whatever the state of the domain.
domain_attach_reentrant(d) ==
    /\ att.calls < MaxAttachCalls
    /\ IF AttachKind(d) = "Local"
       THEN att' = [att EXCEPT !.state[d] = "Attached",
                               !.calls = @ + 1,
                               !.ret = AttachRet(d, att.state[d], "Attached", FALSE, FALSE)]
       ELSE att' = [att EXCEPT !.state[d] = "Attaching",
                               !.handshakes[d] = @ + 1,
                               !.calls = @ + 1,
                               !.ret = AttachRet(d, att.state[d], "Attaching", TRUE, FALSE)]
    /\ UNCHANGED <<mainVars, reg_hist, keyVars>>

\* attach(): Detached -> Attaching, and for a local domain at once on to
\* Attached; for a client domain a connection is opened and its handshake
\* begins.  While Attaching or Attached the call is a no-op that returns the
\* current state (design 4.2, 4.5).
domain_attach(d) ==
    /\ att.calls < MaxAttachCalls
    /\ IF att.state[d] # "Detached"
       THEN att' = [att EXCEPT !.calls = @ + 1,
                               !.ret = AttachRet(d, att.state[d], att.state[d], FALSE, FALSE)]
       ELSE IF AttachKind(d) = "Local"
       THEN att' = [att EXCEPT !.state[d] = "Attached",
                               !.calls = @ + 1,
                               !.ret = AttachRet(d, "Detached", "Attached", FALSE, FALSE)]
       ELSE att' = [att EXCEPT !.state[d] = "Attaching",
                               !.handshakes[d] = @ + 1,
                               !.calls = @ + 1,
                               !.ret = AttachRet(d, "Detached", "Attaching", TRUE, FALSE)]
    /\ UNCHANGED <<mainVars, reg_hist, keyVars>>

\* Attaching --success--> Attached: a handshake in progress completes.
attach_success(d) ==
    /\ att.handshakes[d] > 0
    /\ att' = [att EXCEPT !.state[d] = "Attached", !.handshakes[d] = @ - 1]
    /\ UNCHANGED <<mainVars, reg_hist, keyVars>>

\* Attaching --failure--> Detached: a handshake in progress fails.
attach_failure(d) ==
    /\ att.handshakes[d] > 0
    /\ att' = [att EXCEPT !.state[d] = "Detached", !.handshakes[d] = @ - 1]
    /\ UNCHANGED <<mainVars, reg_hist, keyVars>>

\* Attached --detach()--> Detached
domain_detach(d) ==
    /\ att.state[d] = "Attached"
    /\ att' = [att EXCEPT !.state[d] = "Detached"]
    /\ UNCHANGED <<mainVars, reg_hist, keyVars>>

\* --------------------------------------------------------- specification
Init ==
    /\ opts \in StartOpts \cup CliOpts
    /\ config \in Configs
    /\ pc = "main"
    /\ result = NoResult
    /\ next_domain_id = 0
    /\ domains = <<>>
    /\ mux = NoMux
    /\ gui = NoGui
    /\ loop = [phase |-> 0, idx |-> 0]
    /\ domain_id = NoId
    /\ window_id = NoId
    /\ tab = NoId
    /\ log = <<>>
    /\ at_check = NoMux
    /\ at_spawn = [mux |-> NoMux, domains |-> <<>>]
    /\ client = "none"
    /\ tabs = <<>>
    /\ data = <<>>
    /\ stdout = <<>>
    /\ threads = <<>>
    /\ returned = <<>>
    /\ registered = <<>>
    /\ HarnessIdle

Next ==
    \/ main_load_config
    \/ main_dispatch
    \/ run_terminal_gui
    \/ cli_list

Spec == Init /\ [][Next]_vars

\* The allocator under concurrent callers.
InitAlloc ==
    /\ opts = [cmd |-> "Start", front_end |-> "None",
               no_auto_connect |-> FALSE, prog |-> <<>>]
    /\ config = [unix_domains |-> <<>>, tls_clients |-> <<>>, front_end |-> "Glutin"]
    /\ pc = "concurrent"
    /\ result = NoResult
    /\ next_domain_id = 0
    /\ domains = <<>>
    /\ mux = NoMux
    /\ gui = NoGui
    /\ loop = [phase |-> 0, idx |-> 0]
    /\ domain_id = NoId
    /\ window_id = NoId
    /\ tab = NoId
    /\ log = <<>>
    /\ at_check = NoMux
    /\ at_spawn = [mux |-> NoMux, domains |-> <<>>]
    /\ client = "none"
    /\ tabs = <<>>
    /\ data = <<>>
    /\ stdout = <<>>
    /\ threads = [t \in Threads |-> IdleThread]
    /\ returned = <<>>
    /\ registered = <<>>
    /\ HarnessIdle

NextAlloc ==
    \/ \E t \in Threads : alloc_call(t)
    \/ \E t \in Threads : alloc_domain_id(t)
    \/ \E t \in Threads : alloc_add(t)
    \/ \E t \in Threads : alloc_drop(t)
    \/ \E id \in DOMAIN registered : alloc_remove(id)

SpecAlloc == InitAlloc /\ [][NextAlloc]_vars

\* ================================================================ claims
\* Events of the startup log that belong to one configured domain.
SameDomain(a, b) == a.kind = b.kind /\ a.idx = b.idx

StepRank(ev) ==
    CASE ev = "alloc" -> 1
      [] ev = "construct" -> 2
      [] ev = "add_domain" -> 3
      [] ev = "attach" -> 4
      [] OTHER -> 5

AttachFailed == \E i \in DOMAIN log : log[i].ev = "attach_failed"

\* The connect_automatically entries of the configuration.
AutoDomains ==
    {<<"unix", i>> : i \in {j \in DOMAIN config.unix_domains :
                              config.unix_domains[j].connect_automatically}}
    \cup
    {<<"tls", i>> : i \in {j \in DOMAIN config.tls_clients :
                             config.tls_clients[j].connect_automatically}}

NewWindows == Len(mux.windows) - Len(at_check.windows)
NewTabs == Len(AllTabs(mux)) - Len(AllTabs(at_check))

\* Startup is past its default-window step: it is about to enter, or has
\* entered, run_forever, or it has returned.
PastDefaultWindow == at_check.exists /\ pc \in {"run_forever", "running", "exit"}

\* The tab startup spawned is the last tab of the last window, owned by the
\* default domain, which is the initial local domain.
SpawnedThroughDefault ==
    LET w == mux.windows[Len(mux.windows)]
    IN  /\ w.id = window_id
        /\ Len(w.tabs) = 1
        /\ w.tabs[1].id = tab
        /\ w.tabs[1].owning_domain = mux.default_domain
        /\ domains[w.tabs[1].owning_domain].kind = "Local"
        /\ SubSeq(mux.windows, 1, Len(mux.windows) - 1) = at_check.windows

\* C1: once attach() of a client domain has failed during startup, startup is
\* not ended by that failure: run_terminal_gui does not return the attach
\* error, so the remaining domains, the is_empty() check and run_forever
\* are still reached.
C1_AttachFailureDoesNotAbort ==
    AttachFailed => ~(pc = "exit" /\ result = Err("ConnectionFailed"))

\* C2 as stated: after the configured domains have been processed, startup
\* has created exactly one window and exactly one tab, through the default
\* local domain, if and only if is_empty() held at the check; otherwise it
\* has created nothing.
C2_DefaultWindowIffEmpty ==
    PastDefaultWindow =>
        IF is_empty(at_check)
        THEN NewWindows = 1 /\ NewTabs = 1 /\ SpawnedThroughDefault
        ELSE mux = at_check /\ window_id = NoId /\ tab = NoId

\* C2 as amended: when is_empty() held at the check, startup has created
\* exactly one window and, unless the default-domain spawn failed, exactly
\* one tab in it through the default local domain; a failed spawn leaves the
\* new window without a tab and startup returns the spawn error.  When
\* is_empty() did not hold, startup has created no window and no tab.
C2_DefaultWindowIffEmptyUnlessSpawnFails ==
    PastDefaultWindow =>
        IF is_empty(at_check)
        THEN /\ NewWindows = 1
             /\ \/ NewTabs = 1 /\ SpawnedThroughDefault
                \/ /\ NewTabs = 0
                   /\ pc = "exit"
                   /\ result = Err("SpawnFailed")
                   /\ mux = new_empty_window(at_check)
        ELSE mux = at_check /\ window_id = NoId /\ tab = NoId

\* C2 witness: startup runs with an attached client domain that mirrored
\* only an empty window, and has made its own window and tab.
C2_Witness ==
    /\ pc = "running"
    /\ is_empty(at_check)
    /\ Len(at_check.windows) > 0
    /\ \E d \in mux.domains : domains[d].kind # "Local" /\ domains[d].state = "Attached"
    /\ NewTabs = 1

\* C3: the startup log handles unix domains before TLS domains, each kind in
\* declaration order, only connect_automatically entries, each domain in
\* the step order alloc, construct, add_domain, attach, attach returned, with
\* no step skipped, and no step of a later domain before the attach of the
\* earlier domain has returned successfully.
C3_AutoConnectOrder ==
    /\ \A i \in DOMAIN log : <<log[i].kind, log[i].idx>> \in AutoDomains
    /\ \A i, j \in DOMAIN log :
        i < j =>
          /\ ~(log[i].kind = "tls" /\ log[j].kind = "unix")
          /\ (log[i].kind = log[j].kind => log[i].idx <= log[j].idx)
          /\ (SameDomain(log[i], log[j]) =>
                /\ StepRank(log[i].ev) < StepRank(log[j].ev)
                /\ log[i].id = log[j].id)
          /\ (~SameDomain(log[i], log[j]) =>
                \E k \in DOMAIN log :
                    k < j /\ SameDomain(log[k], log[i]) /\ log[k].ev = "attached")
    /\ \A j \in DOMAIN log :
        StepRank(log[j].ev) > 1 =>
            \E i \in DOMAIN log :
                /\ i < j
                /\ SameDomain(log[i], log[j])
                /\ StepRank(log[i].ev) = StepRank(log[j].ev) - 1
    /\ \A j \in DOMAIN log :
        log[j].ev = "add_domain" => log[j].id \in mux.domains

\* C3 witness: two unix domains and a TLS domain have all been attached.
C3_Witness ==
    /\ \E i \in DOMAIN log : log[i].ev = "attached" /\ log[i].kind = "unix" /\ log[i].idx = 2
    /\ \E i \in DOMAIN log : log[i].ev = "attached" /\ log[i].kind = "tls"
    /\ Cardinality({<<log[i].kind, log[i].idx>> : i \in DOMAIN log}) >= 3

\* ---- reading a rendered table back
IsDigit(c) == \E k \in DOMAIN DigitChars : DigitChars[k] = c

DigitValue(c) == (CHOOSE k \in DOMAIN DigitChars : DigitChars[k] = c) - 1

RECURSIVE DigitsValue(_, _)
DigitsValue(str, acc) ==
    IF str = <<>> THEN acc
    ELSE DigitsValue(Tail(str), acc * 10 + DigitValue(Head(str)))

\* The number a decimal numeral without leading zeros stands for, or -1.
ParseNat(str) ==
    IF \/ str = <<>>
       \/ \E i \in DOMAIN str : ~IsDigit(str[i])
       \/ (Len(str) > 1 /\ str[1] = "0")
    THEN 0 - 1
    ELSE DigitsValue(str, 0)

RECURSIVE TrimLeft(_)
TrimLeft(str) ==
    IF str # <<>> /\ Head(str) = " " THEN TrimLeft(Tail(str)) ELSE str

RECURSIVE TrimRight(_)
TrimRight(str) ==
    IF str # <<>> /\ str[Len(str)] = " "
    THEN TrimRight(SubSeq(str, 1, Len(str) - 1)) ELSE str

Trim(str) == TrimLeft(TrimRight(str))

\* A row of four cells that reads back as the entry.
RowShows(row, entry) ==
    /\ Len(row) = 4
    /\ ParseNat(row[1]) = entry.window_id
    /\ ParseNat(row[2]) = entry.tab_id
    /\ \E k \in DOMAIN row[3] :
        /\ row[3][k] = "x"
        /\ ParseNat(SubSeq(row[3], 1, k - 1)) = entry.size.cols
        /\ ParseNat(SubSeq(row[3], k + 1, Len(row[3]))) = entry.size.rows
    /\ row[4] = entry.title

TrimCells(line) == [c \in DOMAIN line |-> Trim(line[c])]

HeaderNames ==
    <<<<"W", "I", "N", "I", "D">>, <<"T", "A", "B", "I", "D">>,
      <<"S", "I", "Z", "E">>, <<"T", "I", "T", "L", "E">>>>

\* C4: the query command writes nothing to standard output unless it has
\* connected and received the whole list_tabs response; when connecting or
\* list_tabs fails it returns that error with standard output empty.
C4_NoPartialRendering ==
    opts.cmd = "CliList" =>
        /\ (stdout # <<>> =>
                /\ client = "connected"
                /\ pc = "exit"
                /\ result.err \in {"none", "Io"})
        /\ (pc \in {"cli_connect", "cli_list_tabs", "cli_for", "cli_tabulate"} =>
                stdout = <<>>)
        /\ (pc = "exit" /\ result.err \in {"ConnectionFailed", "ListTabsFailed"} =>
                stdout = <<>> /\ ~result.ok)
        /\ (pc = "exit" /\ client # "connected" => ~result.ok)

\* C4 witness: list_tabs failed on an established connection.
C4_Witness ==
    /\ opts.cmd = "CliList"
    /\ pc = "exit"
    /\ client = "connected"
    /\ result = Err("ListTabsFailed")

\* C5: for a successful list_tabs response the rows collected, and the lines
\* written under the header WINID TABID SIZE TITLE, are one per entry in the
\* order returned, each reading back as that entry's window id, tab id,
\* cols x rows and title.
C5_OneRowPerEntryInOrder ==
    opts.cmd = "CliList" =>
        /\ Len(data) <= Len(tabs)
        /\ \A i \in DOMAIN data : RowShows(data[i], tabs[i])
        /\ (pc = "cli_tabulate" => Len(data) = Len(tabs))
        /\ (pc = "exit" /\ result.ok =>
                /\ Len(stdout) = Len(tabs) + 1
                /\ TrimCells(stdout[1]) = HeaderNames
                /\ \A i \in DOMAIN tabs : RowShows(TrimCells(stdout[i + 1]), tabs[i]))

\* C5 witness: a response of two different entries has been rendered.
C5_Witness ==
    /\ opts.cmd = "CliList"
    /\ pc = "exit"
    /\ result.ok
    /\ Len(tabs) = 2
    /\ tabs[1].window_id > tabs[2].window_id
    /\ Len(stdout) = 3

Range(f) == {f[i] : i \in DOMAIN f}

\* C6: under concurrent callers the ids returned by alloc_domain_id are
\* pairwise distinct and, in order of completion, each is the previous one
\* plus one, as many as calls have completed; an id that was added, removed
\* or never added is not handed out again.
C6_DomainIdsDistinctIncreasingNoGaps ==
    /\ \A i, j \in DOMAIN returned : i # j => returned[i] # returned[j]
    /\ \A i \in DOMAIN returned : i > 1 => returned[i] = returned[i - 1] + 1
    /\ (returned # <<>> => next_domain_id = returned[1] + Len(returned))
    /\ \A t \in Threads :
        threads[t].pc = "holding" =>
            /\ threads[t].id \in Range(returned)
            /\ threads[t].id \notin DOMAIN registered
            /\ \A u \in Threads \ {t} :
                threads[u].pc = "holding" => threads[u].id # threads[t].id
    /\ DOMAIN registered \subseteq Range(returned)

\* C6 witness: two callers are in flight at once, one of them holding an id
\* allocated after an earlier id's domain was removed.
C6_Witness ==
    /\ \E id \in DOMAIN registered :
        /\ registered[id] = "removed"
        /\ \E t \in Threads : threads[t].pc = "holding" /\ threads[t].id > id
    /\ \E t \in Threads : threads[t].pc = "calling"

C7_Scenario ==
    /\ opts.cmd = "Start"
    /\ Len(config.unix_domains) = 2
    /\ \A i \in 1..2 : config.unix_domains[i].connect_automatically
    /\ \E i \in DOMAIN log :
        log[i].ev = "attached" /\ log[i].kind = "unix" /\ log[i].idx = 1
    /\ \E i \in DOMAIN log :
        log[i].ev = "attach_failed" /\ log[i].kind = "unix" /\ log[i].idx = 2

\* C7: with two unix domains set to connect automatically, the first attached
\* and the second failing to connect, both domains are in the registry, the
\* first Attached and the second Detached, and startup is not ended by the
\* failure: it goes on to the default-window decision, making a default
\* window only if the registry was empty.
C7_OneAttachedOneDetachedStartupGoesOn ==
    C7_Scenario =>
        /\ \A i \in DOMAIN log :
            /\ (log[i].ev = "attached" =>
                    log[i].id \in mux.domains /\ domains[log[i].id].state = "Attached")
            /\ (log[i].ev = "attach_failed" =>
                    log[i].id \in mux.domains /\ domains[log[i].id].state = "Detached")
        /\ ~(pc = "exit" /\ result = Err("ConnectionFailed"))
        /\ (window_id # NoId => is_empty(at_check))

C8_Scenario ==
    /\ opts.cmd = "Start"
    /\ config.unix_domains = <<>>
    /\ config.tls_clients = <<>>
    /\ opts.prog = <<>>

\* C8: on a fresh start with no remote domains configured and no program
\* override, the registry is empty from its construction until the default
\* spawn, and a startup that reaches run_forever holds exactly one window
\* with exactly one tab of the default pty size, is_empty() being false.
C8_FreshStartOneWindowOneTab ==
    (C8_Scenario /\ mux.exists) =>
        /\ (pc = "try_new" => mux.windows = <<>> /\ is_empty(mux))
        /\ (tab = NoId => is_empty(mux))
        /\ (pc = "spawn" => is_empty(at_check) /\ is_empty(mux))
        /\ (pc \in {"spawn_new_window", "run_forever", "running"} =>
                /\ Len(mux.windows) = 1
                /\ Len(mux.windows[1].tabs) = 1
                /\ mux.windows[1].tabs[1].size = PtySizeDefault
                /\ ~is_empty(mux))

\* C8 witness: such a startup has entered run_forever.
C8_Witness == C8_Scenario /\ pc = "running" /\ gui.state = "running"

\* C9: when the default-domain spawn fails, run_terminal_gui has returned
\* that error, no front-end window was made, run_forever was not entered, and
\* the registry and its domains are as they were when spawn was called.
C9_SpawnFailureReturnedRegistryUntouched ==
    result = Err("SpawnFailed") =>
        /\ pc = "exit"
        /\ gui.windows = <<>>
        /\ gui.state # "running"
        /\ at_spawn.mux.exists
        /\ mux = at_spawn.mux
        /\ domains = at_spawn.domains

\* C9 witness: the spawn failed in a registry holding a client domain and a
\* mirrored empty window besides the new one.
C9_Witness ==
    /\ result = Err("SpawnFailed")
    /\ Len(mux.windows) >= 2
    /\ Cardinality(mux.domains) >= 2

Attaches == {i \in DOMAIN log : log[i].ev = "attach"}

\* C10: startup calls attach() at most once for each connect_automatically
\* domain, so never more often than there are such domains, and never again
\* after an attach has failed.
C10_AttachAtMostOncePerDomain ==
    /\ Cardinality(Attaches) <= Cardinality(AutoDomains)
    /\ \A i, j \in Attaches : SameDomain(log[i], log[j]) => i = j
    /\ \A i, j \in DOMAIN log :
        (i < j /\ log[i].ev = "attach_failed") => log[j].ev # "attach"
    /\ Cardinality({d \in DOMAIN domains : domains[d].state = "Attaching"}) <= 1

\* C10 witness: a second domain's attach failed after the first one's attach.
C10_Witness ==
    /\ AttachFailed
    /\ Cardinality(Attaches) >= 2
    /\ pc = "exit"

\* The client domains constructed so far.
ClientDomains == {d \in DOMAIN domains : domains[d].kind # "Local"}

\* C12: with --no-auto-connect, or with the mux server as front end, startup
\* allocates no client domain id and constructs, adds and attaches no client
\* domain, so the registry's domains stay the default local domain alone;
\* and an entry whose connect_automatically is false is never allocated an
\* id, added or attached.
C12_NoAutoConnectLeavesDefaultDomainOnly ==
    opts.cmd = "Start" =>
        /\ (opts.no_auto_connect \/ front_end = "MuxServer") =>
                /\ log = <<>>
                /\ ClientDomains = {}
                /\ next_domain_id <= 1
                /\ loop.phase = 0
                /\ pc \notin {"for", "alloc", "construct", "add_domain", "attach", "attaching"}
                /\ (mux.exists => mux.domains = {mux.default_domain}
                                  /\ domains[mux.default_domain].kind = "Local")
        /\ \A i \in DOMAIN log :
                LoopDomains(log[i].kind)[log[i].idx].connect_automatically
        /\ Cardinality(ClientDomains) <= Cardinality(AutoDomains)
        /\ next_domain_id <= 1 + Cardinality(AutoDomains)

\* C12 witness: startup runs with --no-auto-connect although the
\* configuration has connect_automatically domains and a front end that
\* would connect to them.
C12_Witness ==
    /\ opts.cmd = "Start"
    /\ opts.no_auto_connect
    /\ front_end # "MuxServer"
    /\ Cardinality(AutoDomains) >= 2
    /\ pc = "running"

\* C13: attach() of the local default domain always succeeds and leaves it
\* Attached; it is called once the registry and the front end exist and
\* before any client domain id is allocated, so the default domain is
\* Attached whenever a client domain is allocated, added or attached and
\* whenever the default spawn is issued.
C13_LocalDomainAttachedFirst ==
    opts.cmd = "Start" =>
        /\ result.err # "LocalAttach"
        /\ (pc = "attach_local" =>
                /\ mux.exists
                /\ gui.state = "created"
                /\ domains[mux.default_domain].state = "Detached"
                /\ log = <<>>
                /\ ClientDomains = {}
                /\ next_domain_id = 1)
        /\ (pc \in {"auto_connect", "for", "alloc", "construct", "add_domain", "attach",
                    "attaching", "is_empty", "new_empty_window", "spawn",
                    "spawn_new_window", "run_forever", "running"} =>
                domains[mux.default_domain].state = "Attached")
        /\ (log # <<>> => domains[mux.default_domain].state = "Attached")
        /\ (at_spawn.mux.exists =>
                at_spawn.domains[at_spawn.mux.default_domain].state = "Attached")

\* C13 witness: a client domain is attaching while the default domain is
\* Attached.
C13_Witness ==
    /\ pc = "attaching"
    /\ domains[domain_id].state = "Attaching"
    /\ domains[mux.default_domain].state = "Attached"

\* C15: every tab the registry knows, whether spawned through the default
\* domain or mirrored while a client domain attached, has an owning_domain
\* that is in the registry's domain mapping (and is a constructed domain).
C15_TabOwnersAreRegisteredDomains ==
    \A i \in DOMAIN AllTabs(mux) :
        /\ AllTabs(mux)[i].owning_domain \in mux.domains
        /\ AllTabs(mux)[i].owning_domain \in DOMAIN domains

\* C15 witness: startup has entered run_forever with tabs mirrored for two
\* different client domains in the registry.
C15_Witness ==
    /\ pc = "running"
    /\ \E i, j \in DOMAIN AllTabs(mux) :
            /\ AllTabs(mux)[i].owning_domain # AllTabs(mux)[j].owning_domain
            /\ domains[AllTabs(mux)[i].owning_domain].kind # "Local"
            /\ domains[AllTabs(mux)[j].owning_domain].kind # "Local"

AddDomains == {i \in DOMAIN log : log[i].ev = "add_domain"}

\* C16: at startup add_domain never receives an id the registry already
\* holds: the ids of the client domains added are pairwise distinct and
\* differ from the default domain's, and the registry holds one domain for
\* the default domain and one for each add_domain call.
C16_NoDuplicateDomainIdAdded ==
    /\ (pc = "add_domain" => domain_id \notin mux.domains)
    /\ \A i, j \in AddDomains : log[i].id = log[j].id => i = j
    /\ \A i \in AddDomains : log[i].id # mux.default_domain
    /\ (mux.exists => Cardinality(mux.domains) = 1 + Cardinality(AddDomains))

\* C16 witness: two unix client domains and a TLS one have been added.
C16_Witness ==
    /\ Cardinality(AddDomains) = 3
    /\ \E i \in AddDomains : log[i].kind = "tls"

\* C17: when the default-domain spawn fails, the window new_empty_window()
\* made stays: the registry is the one seen by the is_empty() check plus
\* that one window, which has no tabs; is_empty() still holds, and the
\* front end has no window.
C17_EmptyWindowStaysAfterSpawnFailure ==
    result = Err("SpawnFailed") =>
        /\ is_empty(at_check)
        /\ mux = new_empty_window(at_check)
        /\ mux.windows[Len(mux.windows)] = [id |-> window_id, tabs |-> <<>>]
        /\ NewWindows = 1
        /\ NewTabs = 0
        /\ is_empty(mux)
        /\ gui.windows = <<>>

\* C17 witness: the spawn failed on a fresh start, where the new window is
\* the registry's only one.
C17_Witness ==
    /\ result = Err("SpawnFailed")
    /\ Len(mux.windows) = 1
    /\ at_check.windows = <<>>

\* A client could not be constructed: its id was allocated, no construct
\* event followed, and startup has left the construct step.
ConstructFailed ==
    /\ log # <<>>
    /\ log[Len(log)].ev = "alloc"
    /\ pc # "construct"

\* C18: when a client cannot be constructed, run_terminal_gui has returned
\* that error at once: the id allocated for it is consumed and is not in the
\* registry, nothing was allocated, added or attached after it, and neither
\* the is_empty() check nor run_forever was reached.
C18_ClientConstructFailureReturnsAtOnce ==
    /\ \A i \in DOMAIN log :
            (log[i].ev = "alloc" /\ i < Len(log)) =>
                log[i + 1].ev = "construct" /\ log[i + 1].id = log[i].id
    /\ (result = Err("ClientConstruct") => ConstructFailed)
    /\ ConstructFailed =>
            /\ pc = "exit"
            /\ result = Err("ClientConstruct")
            /\ domain_id = log[Len(log)].id
            /\ next_domain_id = domain_id + 1
            /\ domain_id \notin mux.domains
            /\ domain_id \notin DOMAIN domains
            /\ ~at_check.exists
            /\ gui.state = "created"
            /\ gui.windows = <<>>

\* C18 witness: the first of three connect_automatically domains could not
\* be constructed.
C18_Witness ==
    /\ result = Err("ClientConstruct")
    /\ Len(log) = 1
    /\ Cardinality(AutoDomains) = 3

\* The attach state machines on their own.
InitAttach ==
    /\ MainIdle("attach_calls", NoMux, <<>>)
    /\ att = [NoAtt EXCEPT !.state = [d \in AttachDomains |-> "Detached"],
                           !.handshakes = [d \in AttachDomains |-> 0]]
    /\ reg_hist = NoRegHist
    /\ term = NoTerm
    /\ kd = NoKd
    /\ writer = <<>>

NextAttach ==
    \/ \E d \in AttachDomains : domain_attach(d)
    \/ \E d \in AttachDomains : attach_success(d)
    \/ \E d \in AttachDomains : attach_failure(d)
    \/ \E d \in AttachDomains : domain_detach(d)

SpecAttach == InitAttach /\ [][NextAttach]_vars

\* C11: no domain has two handshakes in progress at once, a domain is
\* Attaching exactly while its one handshake is in progress, and an attach()
\* call that found its domain Attaching or Attached started no connection
\* attempt, left the state as it was and returned it without error.
C11_AttachNotReentrant ==
    /\ \A d \in DOMAIN att.state :
            /\ att.handshakes[d] <= 1
            /\ (att.state[d] = "Attaching" <=> att.handshakes[d] = 1)
    /\ (att.ret.before \in {"Attaching", "Attached"} =>
            /\ ~att.ret.started
            /\ ~att.ret.err
            /\ att.ret.after = att.ret.before)

\* C11 witness: attach() was called a second time while the first call's
\* handshake is still in progress.
C11_Witness ==
    /\ att.ret.before = "Attaching"
    /\ att.state[att.ret.dom] = "Attaching"
    /\ att.handshakes[att.ret.dom] = 1
    /\ att.calls >= 2

\* The registry after Mux::new, under any sequence of its mutations.
InitMux ==
    /\ MainIdle("registry", Mux_new(0), (0 :> [kind |-> "Local", state |-> "Attached"]))
    /\ att = NoAtt
    /\ reg_hist = NoRegHist
    /\ term = NoTerm
    /\ kd = NoKd
    /\ writer = <<>>

NextMux ==
    \/ mux_new_empty_window
    \/ \E wid \in WindowIds(mux) : mux_spawn(wid)
    \/ \E tid \in TabIds(mux) : mux_remove_tab(tid)
    \/ \E wid \in WindowIds(mux) : mux_close_window(wid)

SpecMux == InitMux /\ [][NextMux]_vars

\* C14: is_empty() holds exactly when no window of the registry has a tab,
\* that is when as many tabs were removed as were added; new_empty_window()
\* does not change is_empty(), and a window is in the registry from its
\* creation until it is closed, also after its last tab was removed.
C14_IsEmptyIffNoWindowHasTabs ==
    /\ is_empty(mux) <=> \A i \in DOMAIN mux.windows : Len(mux.windows[i].tabs) = 0
    /\ is_empty(mux) <=> reg_hist.added - reg_hist.removed = 0
    /\ Len(mux.windows) = reg_hist.opened - reg_hist.closed
    /\ (reg_hist.last.op = "new_empty_window" =>
            /\ is_empty(mux) = reg_hist.last.was_empty
            /\ WindowOf(mux, reg_hist.last.id).tabs = <<>>)
    /\ (reg_hist.last.op = "remove_tab" => reg_hist.last.id \in WindowIds(mux))

\* C14 witness: the last tab of a window was removed, leaving the registry
\* empty with that window in it.
C14_Witness ==
    /\ reg_hist.last.op = "remove_tab"
    /\ ~reg_hist.last.was_empty
    /\ is_empty(mux)
    /\ reg_hist.last.id \in WindowIds(mux)

\* A terminal in any of its modes receiving key presses.
InitKey ==
    /\ MainIdle("terminal", NoMux, <<>>)
    /\ att = NoAtt
    /\ reg_hist = NoRegHist
    /\ term \in TerminalStates
    /\ kd = NoKd
    /\ writer = <<>>

NextKey == \E key \in KeyCodes, mods \in KeyModifiers : key_down(key, mods)

SpecKey == InitKey /\ [][NextKey]_vars

KeyDownCalled == kd.calls > 0

\* The original wording of C19: the mode is CsiU exactly when the stored
\* encoding is Xterm and the configuration enables CSI-u, and is the stored
\* encoding otherwise.
C19_CsiUExactlyWhenXtermAndEnabled ==
    KeyDownCalled =>
        /\ kd.modes.encoding = "CsiU" <=>
                (term.keyboard_encoding = "Xterm" /\ term.enable_csi_u_key_encoding)
        /\ (~(term.keyboard_encoding = "Xterm" /\ term.enable_csi_u_key_encoding) =>
                kd.modes.encoding = term.keyboard_encoding)
        /\ term = kd.term_before

\* C19: the encoding mode key_down encodes with is CsiU when the stored
\* keyboard_encoding is Xterm and the configuration enables CSI-u, and is the
\* stored keyboard_encoding in every other case, CsiU included; newline_mode
\* and application_cursor_keys are passed on as stored, and the call leaves
\* the terminal's keyboard_encoding, newline_mode and
\* application_cursor_keys as they were.
C19_EffectiveKeyboardEncoding ==
    KeyDownCalled =>
        /\ (term.keyboard_encoding = "Xterm" /\ term.enable_csi_u_key_encoding =>
                kd.modes.encoding = "CsiU")
        /\ (term.keyboard_encoding = "Xterm" /\ ~term.enable_csi_u_key_encoding =>
                kd.modes.encoding = "Xterm")
        /\ (term.keyboard_encoding # "Xterm" =>
                kd.modes.encoding = term.keyboard_encoding)
        /\ kd.modes.newline_mode = term.newline_mode
        /\ kd.modes.application_cursor_keys = term.application_cursor_keys
        /\ term = kd.term_before

\* C19 witness: a key was pressed in a terminal whose stored encoding is
\* CsiU while the configuration does not enable CSI-u.
C19_Witness ==
    /\ KeyDownCalled
    /\ term.keyboard_encoding = "CsiU"
    /\ ~term.enable_csi_u_key_encoding
    /\ kd.modes.encoding = "CsiU"

WriteAlls(events) == {i \in DOMAIN events : events[i].op = "write_all"}

Flushes(events) == {i \in DOMAIN events : events[i].op = "flush"}

\* C20: a key_down whose encode failed returned that error and asked
\* nothing of the writer; one whose encode succeeded asked for exactly one
\* write_all, of the encoded bytes, and after it, only if the write
\* succeeded, for one flush; the error of a failed write or flush is
\* returned.  Over all calls the writer saw at most one write_all per call
\* and never more flushes than successful writes.
C20_WriteOnlyAfterSuccessfulEncode ==
    /\ KeyDownCalled =>
        /\ (kd.encoded.err # "none" =>
                /\ kd.result = Err("Encode")
                /\ kd.issued = <<>>
                /\ kd.level = "none")
        /\ (kd.encoded.err = "none" =>
                /\ kd.encoded.to_send = encode(kd.key, kd.mods, kd.modes)
                /\ Len(kd.issued) \in {1, 2}
                /\ kd.issued[1].op = "write_all"
                /\ kd.issued[1].bytes = kd.encoded.to_send
                /\ Cardinality(WriteAlls(kd.issued)) = 1
                /\ (~kd.issued[1].ok =>
                        Len(kd.issued) = 1 /\ kd.result = Err("Write"))
                /\ (kd.issued[1].ok =>
                        /\ Len(kd.issued) = 2
                        /\ kd.issued[2].op = "flush"
                        /\ kd.result = IF kd.issued[2].ok THEN Ok ELSE Err("Flush")))
        /\ SubSeq(writer, Len(writer) - Len(kd.issued) + 1, Len(writer)) = kd.issued
    /\ Cardinality(WriteAlls(writer)) <= kd.calls
    /\ Cardinality(Flushes(writer))
            = Cardinality({i \in WriteAlls(writer) : writer[i].ok})
    /\ \A i \in Flushes(writer) :
            i > 1 /\ writer[i - 1].op = "write_all" /\ writer[i - 1].ok

\* C20 witness: one key_down failed to encode after another had written
\* and flushed its bytes.
C20_Witness ==
    /\ kd.calls = 2
    /\ kd.encoded.err = "Encode"
    /\ Len(writer) = 2
    /\ writer[1].ok /\ writer[2].ok

====
